---- MODULE Spec2Model ----
(***************************************************************************)
(* Model of api/index.py: the two source adapters, the persistence client  *)
(* and the serverless handler do_GET that fetches two follower counts and  *)
(* writes one Snapshot to the key-value store.                              *)
(*                                                                         *)
(* Python and JSON values are tagged records [k |-> kind, v |-> payload].   *)
(* Strings are sequences of one-character strings so that int(...) and the *)
(* timestamp formatting can be computed the way Python computes them.      *)
(***************************************************************************)
EXTENDS Integers, Sequences, FiniteSets, TLC

(* ------------------------------------------------------------------ *)
(* Python / JSON values                                                 *)
(* ------------------------------------------------------------------ *)
None == [k |-> "null", v |-> 0]
JBool(b) == [k |-> "bool", v |-> b]
JInt(n) == [k |-> "int", v |-> n]
JStr(s) == [k |-> "str", v |-> s]
JList(s) == [k |-> "list", v |-> s]
JObj(f) == [k |-> "obj", v |-> f]
True == JBool(TRUE)
False == JBool(FALSE)
EmptyDict == [q \in {} |-> None]

\* Marker used only to build dicts with optional keys; never a Python value.
Absent == [k |-> "absent", v |-> 0]
MkDict(fields) ==
  JObj([key \in {x \in DOMAIN fields : fields[x] # Absent} |-> fields[key]])

\* Python truthiness (the `not x` / `if x` tests).
Truthy(x) ==
  CASE x.k = "null" -> FALSE
    [] x.k = "bool" -> x.v
    [] x.k = "int"  -> x.v # 0
    [] x.k = "str"  -> Len(x.v) > 0
    [] x.k = "list" -> Len(x.v) > 0
    [] x.k = "obj"  -> DOMAIN x.v # {}

\* Python ==: bool is a subclass of int, so False == 0 and True == 1.
IsNum(x) == x.k \in {"int", "bool"}
NumVal(x) == IF x.k = "bool" THEN (IF x.v THEN 1 ELSE 0) ELSE x.v
PyEq(a, b) ==
  IF IsNum(a) /\ IsNum(b) THEN NumVal(a) = NumVal(b)
  ELSE a.k = b.k /\ a.v = b.v

\* The outcome of a call: a returned value or an escaping exception, and the
\* number of network requests the call issued.
Ret(val, io) == [exc |-> "none", val |-> val, io |-> io]
Raise(exc, io) == [exc |-> exc, val |-> None, io |-> io]

\* dict.get(key, default) inside a try block: AttributeError unless d is a dict.
DictGet(d, key, default) ==
  IF d.k # "obj" THEN Raise("AttributeError", 0)
  ELSE IF key \in DOMAIN d.v THEN Ret(d.v[key], 0) ELSE Ret(default, 0)

\* x[0]
Index0(x) ==
  CASE x.k = "list" -> IF Len(x.v) > 0 THEN Ret(x.v[1], 0) ELSE Raise("IndexError", 0)
    [] x.k = "str"  -> IF Len(x.v) > 0 THEN Ret(JStr(<<x.v[1]>>), 0) ELSE Raise("IndexError", 0)
    [] x.k = "obj"  -> Raise("KeyError", 0)
    [] OTHER        -> Raise("TypeError", 0)

(* ------------------------------------------------------------------ *)
(* int(x)                                                               *)
(* ------------------------------------------------------------------ *)
DigitChars == {"0", "1", "2", "3", "4", "5", "6", "7", "8", "9"}
DigitVal(c) ==
  CASE c = "0" -> 0 [] c = "1" -> 1 [] c = "2" -> 2 [] c = "3" -> 3 [] c = "4" -> 4
    [] c = "5" -> 5 [] c = "6" -> 6 [] c = "7" -> 7 [] c = "8" -> 8 [] c = "9" -> 9

RECURSIVE Strip(_)
Strip(s) ==
  IF Len(s) > 0 /\ s[1] = " " THEN Strip(Tail(s))
  ELSE IF Len(s) > 0 /\ s[Len(s)] = " " THEN Strip(SubSeq(s, 1, Len(s) - 1))
  ELSE s

RECURSIVE DigitsValue(_, _)
DigitsValue(s, acc) ==
  IF Len(s) = 0 THEN acc ELSE DigitsValue(Tail(s), 10 * acc + DigitVal(s[1]))

AllDigits(s) == Len(s) > 0 /\ \A i \in 1..Len(s) : s[i] \in DigitChars

PyIntOfStr(s) ==
  LET t == Strip(s) IN
    IF Len(t) > 0 /\ t[1] \in {"-", "+"} THEN
      IF AllDigits(Tail(t))
      THEN Ret(JInt((IF t[1] = "-" THEN -1 ELSE 1) * DigitsValue(Tail(t), 0)), 0)
      ELSE Raise("ValueError", 0)
    ELSE IF AllDigits(t) THEN Ret(JInt(DigitsValue(t, 0)), 0)
    ELSE Raise("ValueError", 0)

PyInt(x) ==
  CASE x.k = "int"  -> Ret(x, 0)
    [] x.k = "bool" -> Ret(JInt(NumVal(x)), 0)
    [] x.k = "str"  -> PyIntOfStr(x.v)
    [] OTHER        -> Raise("TypeError", 0)

(* ------------------------------------------------------------------ *)
(* Configuration                                                        *)
(* ------------------------------------------------------------------ *)
BILIBILI_USER_ID == JStr(<<"4", "9", "1", "3", "0", "6", "9", "0", "2">>)
YOUTUBE_CHANNEL_ID ==
  JStr(<<"U", "C", "_", "5", "l", "J", "H", "g", "n", "M", "P", "_",
         "l", "b", "_", "V", "p", "I", "i", "X", "V", "0", "h", "Q">>)
KV_KEY_NAME == "follower_counts"

(* ------------------------------------------------------------------ *)
(* What the network gives back to one outbound request.                 *)
(*   err      "none", or the transport failure ("timeout", "connection") *)
(*   status   the HTTP status of the response                           *)
(*   parsable whether the body is JSON; json is the parsed body          *)
(*   applied  whether the server carried the request out (a store write) *)
(* ------------------------------------------------------------------ *)
NetResp(status, parsable, json, applied) ==
  [err |-> "none", status |-> status, parsable |-> parsable, json |-> json,
   applied |-> applied]
NetFail(err, applied) ==
  [err |-> err, status |-> 0, parsable |-> FALSE, json |-> None, applied |-> applied]

\* requests.get / requests.post followed by raise_for_status() and .json():
\* the parsed body, or the exception raised on the way.
RequestJson(net) ==
  IF net.err # "none" THEN Raise("RequestException", 1)
  ELSE IF net.status >= 400 THEN Raise("RequestException", 1)
  ELSE IF ~net.parsable THEN Raise("JSONDecodeError", 1)
  ELSE Ret(net.json, 1)

\* The except clauses of get_bilibili_followers and store_in_vercel_kv.
CaughtByRequestsHandlers(exc) == exc \in {"RequestException", "JSONDecodeError"}

\* The try body of get_bilibili_followers.  (Line 38 nests double quotes in an
\* f-string, which parses from Python 3.12 on; the model is of the module as
\* such an interpreter loads it.)
bilibili_try(net) ==
  LET resp == RequestJson(net) IN
  IF resp.exc # "none" THEN resp
  ELSE
    LET data == resp.val
        code == DictGet(data, "code", None)
    IN
    IF code.exc # "none" THEN Raise(code.exc, 1)
    ELSE IF PyEq(code.val, JInt(0)) THEN
      LET d == DictGet(data, "data", JObj(EmptyDict))
          f == DictGet(d.val, "follower", None)
      IN IF f.exc # "none" THEN Raise(f.exc, 1) ELSE Ret(f.val, 1)
    ELSE Ret(None, 1)

\* A failed request is sent once more before giving up.
get_bilibili_followers_Retry(user_id, net) ==
  LET out == bilibili_try(net) IN
  IF CaughtByRequestsHandlers(out.exc) THEN Ret(None, out.io + 1) ELSE out

\* lines 22-45
get_bilibili_followers(user_id, net) ==
  LET out == bilibili_try(net) IN
  IF CaughtByRequestsHandlers(out.exc) THEN Ret(None, out.io) ELSE out

\* The call chain youtube.channels().list(...).execute(): the parsed body, or
\* the client library's error for a transport failure, a non-success status
\* or an unparsable body.
YoutubeExecute(net) ==
  IF net.err # "none" \/ net.status >= 300 \/ ~net.parsable
  THEN Raise("HttpError", 1)
  ELSE Ret(net.json, 1)

\* The conditional expression of line 63.
youtube_count(statistics) ==
  LET hid == DictGet(statistics, "hiddenSubscriberCount", None) IN
  IF hid.exc # "none" THEN Raise(hid.exc, 1)
  ELSE IF PyEq(hid.val, False) THEN
    LET n == PyInt(DictGet(statistics, "subscriberCount", JInt(0)).val)
    IN IF n.exc # "none" THEN Raise(n.exc, 1) ELSE Ret(n.val, 1)
  ELSE Ret(JStr(<<"h", "i", "d", "d", "e", "n">>), 1)

\* The try body of get_youtube_subscribers.
youtube_try(channel_id, api_key, net) ==
  LET resp == YoutubeExecute(net) IN
  IF resp.exc # "none" THEN resp
  ELSE
    LET items == DictGet(resp.val, "items", None) IN
    IF items.exc # "none" THEN Raise(items.exc, 1)
    ELSE IF Truthy(items.val) THEN
      LET first == Index0(items.val) IN
      IF first.exc # "none" THEN Raise(first.exc, 1)
      ELSE
        LET statistics == DictGet(first.val, "statistics", JObj(EmptyDict)) IN
        IF statistics.exc # "none" THEN Raise(statistics.exc, 1)
        ELSE youtube_count(statistics.val)
    ELSE Ret(None, 1)

\* except Exception: every exception of the try body is caught.
CaughtByYoutubeHandler(exc) == exc # "none"

\* The client is built and the request sent whatever the credential.
get_youtube_subscribers_Unguarded(channel_id, api_key, net) ==
  LET out == youtube_try(channel_id, api_key, net) IN
  IF CaughtByYoutubeHandler(out.exc) THEN Ret(None, out.io) ELSE out

\* lines 47-69
get_youtube_subscribers(channel_id, api_key, net) ==
  IF ~Truthy(api_key) THEN Ret(None, 0)
  ELSE
    LET out == youtube_try(channel_id, api_key, net) IN
    IF CaughtByYoutubeHandler(out.exc) THEN Ret(None, out.io) ELSE out

\* The try body of store_in_vercel_kv.
store_try(net) ==
  LET resp == RequestJson(net) IN
  IF resp.exc # "none" THEN resp
  ELSE
    LET r == DictGet(resp.val, "result", None) IN
    IF r.exc # "none" THEN Raise(r.exc, 1)
    ELSE IF PyEq(r.val, JStr(<<"O", "K">>)) THEN Ret(True, 1)
    ELSE Ret(False, 1)

\* The request is sent whatever the configuration.
store_in_vercel_kv_Unguarded(key, value, url, token, net) ==
  LET out == store_try(net) IN
  IF CaughtByRequestsHandlers(out.exc) THEN Ret(False, out.io) ELSE out

\* lines 71-96
store_in_vercel_kv(key, value, url, token, net) ==
  IF ~Truthy(url) \/ ~Truthy(token) THEN Ret(False, 0)
  ELSE
    LET out == store_try(net) IN
    IF CaughtByRequestsHandlers(out.exc) THEN Ret(False, out.io) ELSE out

(* ------------------------------------------------------------------ *)
(* Bounded input sets: what the environment and the three upstream      *)
(* services can present.                                                *)
(* ------------------------------------------------------------------ *)
HIDDEN == JStr(<<"h", "i", "d", "d", "e", "n">>)

\* An environment value: unset, set to the empty string, or set.
ConfigValues == {None, JStr(<<>>), JStr(<<"s", "e", "t">>)}

\* Bodies that are JSON but not an object.
NonObjects == {None, JList(<<>>), JStr(<<"O", "K">>), JInt(0)}

\* Platform A: {"code": c, "data": {"follower": f}} with every part optional
\* or of another shape.
BiliFollowers == {Absent, JInt(500), None, HIDDEN, JObj(EmptyDict)}
BiliDatas ==
  {Absent, None, JList(<<>>)} \cup {MkDict([follower |-> f]) : f \in BiliFollowers}
BiliCodes == {Absent, JInt(0), JInt(-404), False, None}
BiliBodies ==
  {MkDict([code |-> c, data |-> d]) : c \in BiliCodes, d \in BiliDatas}
    \cup NonObjects

\* Platform B: {"items": [{"statistics": {"subscriberCount": n,
\* "hiddenSubscriberCount": h}}]} with every part optional or of another shape.
YtHiddenFlags == {Absent, True, False, None}
YtCounts ==
  {Absent, JStr(<<"1", "2", "0", "0">>), JStr(<<"a", "b", "c">>), JStr(<<"-", "5">>),
   JInt(1200), None}
YtStatistics ==
  {Absent, None, JStr(<<"x">>)}
    \cup {MkDict([hiddenSubscriberCount |-> h, subscriberCount |-> n]) :
            h \in YtHiddenFlags, n \in YtCounts}
YtItems ==
  {Absent, None, JList(<<>>), JList(<<None>>), JStr(<<"x">>),
   MkDict([statistics |-> None])}
    \cup {JList(<<MkDict([statistics |-> st])>>) : st \in YtStatistics}
YtBodies == {MkDict([items |-> i]) : i \in YtItems} \cup NonObjects

\* The store: {"result": r}.
KvResults == {Absent, JStr(<<"O", "K">>), JStr(<<"E", "R", "R", "O", "R">>), None, True}
KvBodies == {MkDict([result |-> r]) : r \in KvResults} \cup NonObjects

\* A read request: a transport failure, an error status, an unparsable body or
\* a JSON body.
ReadNets(bodies) ==
  {NetFail("timeout", FALSE), NetFail("connection", FALSE),
   NetResp(200, FALSE, None, FALSE), NetResp(404, TRUE, MkDict([code |-> JInt(0)]), FALSE),
   NetResp(500, FALSE, None, FALSE)}
    \cup {NetResp(200, TRUE, b, FALSE) : b \in bodies}
BiliNets == ReadNets(BiliBodies)
YtNets == ReadNets(YtBodies)

\* A write request. The store carries the write out before it answers
\* "OK"; it may also have carried it out when the answer is lost (timeout),
\* garbled on the way (no JSON object) or an error of a later stage (500),
\* and it has not when it was never reached (connection), refused the
\* credential (401) or answered with a result other than "OK".
KvNets ==
  {NetFail("connection", FALSE), NetResp(401, TRUE, MkDict([result |-> Absent]), FALSE)}
    \cup {NetFail("timeout", a) : a \in BOOLEAN}
    \cup {NetResp(500, FALSE, None, a) : a \in BOOLEAN}
    \cup {NetResp(200, FALSE, None, a) : a \in BOOLEAN}
    \cup {NetResp(200, TRUE, b, a) : b \in NonObjects, a \in BOOLEAN}
    \cup {NetResp(200, TRUE, b, FALSE) :
             b \in KvBodies \ (NonObjects \cup {MkDict([result |-> JStr(<<"O", "K">>)])})}
    \cup {NetResp(200, TRUE, MkDict([result |-> JStr(<<"O", "K">>)]), TRUE)}

(* ------------------------------------------------------------------ *)
(* State                                                                *)
(* ------------------------------------------------------------------ *)
MaxClock == 2

\* The processes the runtime runs the handler in.
Procs == {"p1", "p2"}

VARIABLES
  env,                 \* the module-level configuration read from os.environ
  now,                 \* the wall clock
  kv,                  \* the key-value store: key -> stored value
  applied,             \* history: capture times of the Snapshots the store applied
  last_applied,        \* history: capture time of the Snapshot applied last (-1: none)
  posted,              \* per process: the store writes sent by this invocation
  pc,                  \* per process: where do_GET stands
  bilibili_followers,  \* per process: locals of do_GET
  youtube_subscribers,
  timestamp,
  result_data,
  success,
  response,            \* per process: the HTTP responses written by this invocation
  calls,               \* per process: calls of the three helpers by this invocation
  reqs,                \* per process: network requests issued by this invocation
  failed,              \* per process: the sources whose upstream did not answer as expected
  probe                \* a single call of one helper: its arguments and its outcome

vars ==
  <<env, now, kv, applied, last_applied, pc, bilibili_followers, youtube_subscribers, timestamp,
    result_data, success, response, calls, reqs, failed, posted, probe>>

shared == <<env, now, kv, applied, last_applied>>
locals ==
  <<bilibili_followers, youtube_subscribers, timestamp, result_data, success>>

NoCalls == [bilibili |-> 0, youtube |-> 0, kv |-> 0]
NoProbe ==
  [fn |-> "none", api_key |-> None, net |-> NetFail("connection", FALSE),
   out |-> Ret(None, 0)]

Init ==
  /\ env \in [YOUTUBE_API_KEY : ConfigValues, KV_REST_API_URL : ConfigValues,
              KV_REST_API_TOKEN : ConfigValues]
  /\ now = 0
  /\ kv = EmptyDict
  /\ applied = {}
  /\ last_applied = -1
  /\ pc = [p \in Procs |-> "idle"]
  /\ bilibili_followers = [p \in Procs |-> None]
  /\ youtube_subscribers = [p \in Procs |-> None]
  /\ timestamp = [p \in Procs |-> None]
  /\ result_data = [p \in Procs |-> None]
  /\ success = [p \in Procs |-> None]
  /\ response = [p \in Procs |-> <<>>]
  /\ calls = [p \in Procs |-> NoCalls]
  /\ reqs = [p \in Procs |-> NoCalls]
  /\ failed = [p \in Procs |-> {}]
  /\ posted = [p \in Procs |-> <<>>]
  /\ probe = NoProbe

(* ------------------------------------------------------------------ *)
(* The handler: do_GET                                                  *)
(* ------------------------------------------------------------------ *)

\* The check with the store credential left out.
ConfigMissing_WithoutToken(e) ==
  \/ ~Truthy(e.YOUTUBE_API_KEY)
  \/ ~Truthy(e.KV_REST_API_URL)

\* line 104
ConfigMissing(e) ==
  \/ ~Truthy(e.YOUTUBE_API_KEY)
  \/ ~Truthy(e.KV_REST_API_URL)
  \/ ~Truthy(e.KV_REST_API_TOKEN)

\* send_response, send_header("Content-type", ...), end_headers, wfile.write
HttpResponse(status, body) ==
  [status |-> status, content_type |-> "application/json", body |-> body]

ConfigErrorBody ==
  JObj([error |-> JStr(<<"Missing required environment variables ",
                         "(YOUTUBE_API_KEY, KV_REST_API_URL, KV_REST_API_TOKEN)">>)])
SuccessBody(data) ==
  JObj([status |-> JStr(<<"success">>), data_stored |-> data])
FailureBody ==
  JObj([status |-> JStr(<<"error">>),
        message |-> JStr(<<"Failed to store data in Vercel KV">>)])

\* datetime.datetime.utcnow().isoformat() + "Z".  The fields of the ISO form
\* have a fixed width; within the bound only the last two digits vary, and the
\* constant leading fields are left out.
DigitChar(d) ==
  CASE d = 0 -> "0" [] d = 1 -> "1" [] d = 2 -> "2" [] d = 3 -> "3" [] d = 4 -> "4"
    [] d = 5 -> "5" [] d = 6 -> "6" [] d = 7 -> "7" [] d = 8 -> "8" [] d = 9 -> "9"
isoformat(t) == <<"T", DigitChar((t \div 10) % 10), DigitChar(t % 10)>>
\* The timestamp formatted once, when the module was loaded, and kept.
utcnow_stamp_Cached(t) == JStr(isoformat(0) \o <<"Z">>)

\* line 117: datetime.datetime.utcnow().isoformat() + "Z"
utcnow_stamp(t) == JStr(isoformat(t) \o <<"Z">>)
\* The instant a timestamp string denotes.
StampTime(ts) == DigitsValue(SubSeq(ts.v, 2, 3), 0)

\* The record stamped with a second, later reading of the clock in place of
\* the captured one.
Snapshot_SecondReading(b, y, ts) ==
  JObj([bilibili |-> JObj([user_id |-> BILIBILI_USER_ID, followers |-> b]),
        youtube |-> JObj([channel_id |-> YOUTUBE_CHANNEL_ID, subscribers |-> y]),
        last_updated_utc |-> utcnow_stamp(StampTime(ts) + 1)])

\* The record with the two counts in each other's place.
Snapshot_Swapped(b, y, ts) ==
  JObj([bilibili |-> JObj([user_id |-> BILIBILI_USER_ID, followers |-> y]),
        youtube |-> JObj([channel_id |-> YOUTUBE_CHANNEL_ID, subscribers |-> b]),
        last_updated_utc |-> ts])

\* lines 119-129
Snapshot(b, y, ts) ==
  JObj([bilibili |-> JObj([user_id |-> BILIBILI_USER_ID, followers |-> b]),
        youtube |-> JObj([channel_id |-> YOUTUBE_CHANNEL_ID, subscribers |-> y]),
        last_updated_utc |-> ts])

\* The URL formatted without its placeholder: .../set/key
StoreRequest_LiteralKey(key, value) == [key |-> "key", value |-> value]

\* Only the first source's record is sent as the JSON body.
StoreRequest_OnlyPlatformA(key, value) == [key |-> key, value |-> value.v["bilibili"]]

\* line 82: the write sent to the store, POST <url>/set/<key> with the value
\* as the JSON body.
StoreRequest(key, value) == [key |-> key, value |-> value]

\* A write that only creates the key (SETNX) in place of SET.
KvSet_IfAbsent(store, req) ==
  IF req.key \in DOMAIN store THEN store
  ELSE [key \in DOMAIN store \cup {req.key} |->
          IF key = req.key THEN req.value ELSE store[key]]

\* lines 81-82: the store's SET command: the value at the key is replaced.
KvSet(store, req) ==
  [key \in DOMAIN store \cup {req.key} |->
     IF key = req.key THEN req.value ELSE store[key]]

\* What the upstreams are expected to answer (their documented shape).
BiliExpected(net) ==
  /\ net.err = "none" /\ net.status = 200 /\ net.parsable
  /\ net.json.k = "obj"
  /\ DOMAIN net.json.v = {"code", "data"}
  /\ net.json.v["code"] = JInt(0)
  /\ net.json.v["data"].k = "obj"
  /\ "follower" \in DOMAIN net.json.v["data"].v
  /\ net.json.v["data"].v["follower"].k = "int"
YtExpectedStatistics(st) ==
  /\ st.k = "obj"
  /\ "hiddenSubscriberCount" \in DOMAIN st.v
  /\ st.v["hiddenSubscriberCount"].k = "bool"
  /\ \/ st.v["hiddenSubscriberCount"].v
     \/ /\ "subscriberCount" \in DOMAIN st.v
        /\ PyInt(st.v["subscriberCount"]).exc = "none"
YtExpected(net) ==
  /\ net.err = "none" /\ net.status = 200 /\ net.parsable
  /\ net.json.k = "obj"
  /\ "items" \in DOMAIN net.json.v
  /\ net.json.v["items"].k = "list"
  /\ Len(net.json.v["items"].v) > 0
  /\ net.json.v["items"].v[1].k = "obj"
  /\ "statistics" \in DOMAIN net.json.v["items"].v[1].v
  /\ YtExpectedStatistics(net.json.v["items"].v[1].v["statistics"])

\* The runtime calls do_GET for a new request.
Invoke(p) ==
  /\ pc[p] \in {"idle", "done", "raised"}
  /\ pc' = [pc EXCEPT ![p] = "check_config"]
  /\ bilibili_followers' = [bilibili_followers EXCEPT ![p] = None]
  /\ youtube_subscribers' = [youtube_subscribers EXCEPT ![p] = None]
  /\ timestamp' = [timestamp EXCEPT ![p] = None]
  /\ result_data' = [result_data EXCEPT ![p] = None]
  /\ success' = [success EXCEPT ![p] = None]
  /\ response' = [response EXCEPT ![p] = <<>>]
  /\ calls' = [calls EXCEPT ![p] = NoCalls]
  /\ reqs' = [reqs EXCEPT ![p] = NoCalls]
  /\ failed' = [failed EXCEPT ![p] = {}]
  /\ posted' = [posted EXCEPT ![p] = <<>>]
  /\ UNCHANGED <<shared, probe>>

\* lines 104-110
CheckConfig(p) ==
  /\ pc[p] = "check_config"
  /\ IF ConfigMissing(env)
     THEN /\ response' = [response EXCEPT ![p] = Append(@, HttpResponse(500, ConfigErrorBody))]
          /\ pc' = [pc EXCEPT ![p] = "done"]
     ELSE /\ pc' = [pc EXCEPT ![p] = "fetch_bilibili"]
          /\ UNCHANGED response
  /\ UNCHANGED <<shared, locals, calls, reqs, failed, posted, probe>>

\* line 114
FetchBilibili(p, nets) ==
  /\ pc[p] = "fetch_bilibili"
  /\ \E net \in nets :
       LET out == get_bilibili_followers(BILIBILI_USER_ID, net) IN
       /\ calls' = [calls EXCEPT ![p].bilibili = @ + 1]
       /\ reqs' = [reqs EXCEPT ![p].bilibili = @ + out.io]
       /\ failed' = [failed EXCEPT ![p] = IF BiliExpected(net) THEN @ ELSE @ \cup {"bilibili"}]
       /\ IF out.exc # "none"
          THEN /\ pc' = [pc EXCEPT ![p] = "raised"]
               /\ UNCHANGED bilibili_followers
          ELSE /\ pc' = [pc EXCEPT ![p] = "fetch_youtube"]
               /\ bilibili_followers' = [bilibili_followers EXCEPT ![p] = out.val]
  /\ UNCHANGED <<shared, youtube_subscribers, timestamp, result_data, success,
                 response, posted, probe>>

\* line 115
FetchYoutube(p, nets) ==
  /\ pc[p] = "fetch_youtube"
  /\ \E net \in nets :
       LET out == get_youtube_subscribers(YOUTUBE_CHANNEL_ID, env.YOUTUBE_API_KEY, net) IN
       /\ calls' = [calls EXCEPT ![p].youtube = @ + 1]
       /\ reqs' = [reqs EXCEPT ![p].youtube = @ + out.io]
       /\ failed' = [failed EXCEPT ![p] = IF YtExpected(net) THEN @ ELSE @ \cup {"youtube"}]
       /\ IF out.exc # "none"
          THEN /\ pc' = [pc EXCEPT ![p] = "raised"]
               /\ UNCHANGED youtube_subscribers
          ELSE /\ pc' = [pc EXCEPT ![p] = "aggregate"]
               /\ youtube_subscribers' = [youtube_subscribers EXCEPT ![p] = out.val]
  /\ UNCHANGED <<shared, bilibili_followers, timestamp, result_data, success,
                 response, posted, probe>>

\* lines 117-129
Aggregate(p) ==
  /\ pc[p] = "aggregate"
  /\ timestamp' = [timestamp EXCEPT ![p] = utcnow_stamp(now)]
  /\ result_data' =
       [result_data EXCEPT ![p] =
          Snapshot(bilibili_followers[p], youtube_subscribers[p], timestamp'[p])]
  /\ pc' = [pc EXCEPT ![p] = "persist"]
  /\ UNCHANGED <<shared, bilibili_followers, youtube_subscribers, success, response,
                 calls, reqs, failed, posted, probe>>

\* line 135
Persist(p, nets) ==
  /\ pc[p] = "persist"
  /\ \E net \in nets :
       LET out == store_in_vercel_kv(KV_KEY_NAME, result_data[p], env.KV_REST_API_URL,
                                     env.KV_REST_API_TOKEN, net)
           req == StoreRequest(KV_KEY_NAME, result_data[p])
           done == out.io > 0 /\ net.applied
       IN
       /\ posted' = [posted EXCEPT ![p] = IF out.io > 0 THEN Append(@, req) ELSE @]
       /\ calls' = [calls EXCEPT ![p].kv = @ + 1]
       /\ reqs' = [reqs EXCEPT ![p].kv = @ + out.io]
       /\ kv' = IF done THEN KvSet(kv, req) ELSE kv
       /\ applied' = IF done THEN applied \cup {StampTime(timestamp[p])} ELSE applied
       /\ last_applied' = IF done THEN StampTime(timestamp[p]) ELSE last_applied
       /\ IF out.exc # "none"
          THEN /\ pc' = [pc EXCEPT ![p] = "raised"]
               /\ UNCHANGED success
          ELSE /\ pc' = [pc EXCEPT ![p] = "respond"]
               /\ success' = [success EXCEPT ![p] = out.val]
  /\ UNCHANGED <<env, now, bilibili_followers, youtube_subscribers, timestamp,
                 result_data, response, failed, probe>>

\* lines 138-151
Respond(p) ==
  /\ pc[p] = "respond"
  /\ response' =
       [response EXCEPT ![p] =
          Append(@, IF Truthy(success[p])
                    THEN HttpResponse(200, SuccessBody(result_data[p]))
                    ELSE HttpResponse(500, FailureBody))]
  /\ pc' = [pc EXCEPT ![p] = "done"]
  /\ UNCHANGED <<shared, locals, calls, reqs, failed, posted, probe>>

\* Time passes.
Tick ==
  /\ now < MaxClock
  /\ now' = now + 1
  /\ UNCHANGED <<env, kv, applied, last_applied, pc, locals, response, calls, reqs, failed, posted, probe>>

\* One process serving one request after another, every upstream answer possible.
Workers == {"p1"}
Next ==
  \/ \E p \in Workers :
       \/ Invoke(p)
       \/ CheckConfig(p)
       \/ FetchBilibili(p, BiliNets)
       \/ FetchYoutube(p, YtNets)
       \/ Aggregate(p)
       \/ Persist(p, KvNets)
       \/ Respond(p)
  \/ Tick

Spec == Init /\ [][Next]_vars

\* The upstream answers cut down to one of each kind the handler tells apart.
ConcBiliNets ==
  {NetFail("timeout", FALSE),
   NetResp(200, TRUE, MkDict([code |-> JInt(0), data |-> MkDict([follower |-> JInt(500)])]),
           FALSE)}
ConcYtNets ==
  {NetResp(200, TRUE,
           MkDict([items |-> JList(<<MkDict([statistics |->
              MkDict([hiddenSubscriberCount |-> False,
                      subscriberCount |-> JStr(<<"1", "2", "0", "0">>)])])>>)]),
           FALSE)}
ConcKvNets ==
  {NetFail("connection", FALSE), NetFail("timeout", TRUE),
   NetResp(200, TRUE, MkDict([result |-> JStr(<<"O", "K">>)]), TRUE),
   NetResp(200, TRUE, MkDict([result |-> JStr(<<"E", "R", "R", "O", "R">>)]), FALSE),
   NetResp(200, TRUE, JList(<<>>), TRUE)}

\* datetime.utcnow() reads the system's wall clock, which is not monotonic: the
\* clock can be set back between two readings (a time-synchronisation step, an
\* operator).
ClockSetBack ==
  /\ now > 0
  /\ \E t \in 0..(now - 1) : now' = t
  /\ UNCHANGED <<env, kv, applied, last_applied, pc, locals, response, calls, reqs, failed, posted, probe>>

\* One process serving one request after another, on a clock that may be set back.
NextClock ==
  \/ \E p \in Workers :
       \/ Invoke(p)
       \/ CheckConfig(p)
       \/ FetchBilibili(p, ConcBiliNets)
       \/ FetchYoutube(p, ConcYtNets)
       \/ Aggregate(p)
       \/ Persist(p, ConcKvNets)
       \/ Respond(p)
  \/ Tick
  \/ ClockSetBack

SpecClock == Init /\ [][NextClock]_vars

\* Several processes serving requests at once.  The counts the adapters return
\* play no part in how the processes interleave, so the upstream answers are
\* cut down to one of each kind the handler tells apart.
NextConc ==
  \/ \E p \in Procs :
       \/ Invoke(p)
       \/ CheckConfig(p)
       \/ FetchBilibili(p, ConcBiliNets)
       \/ FetchYoutube(p, ConcYtNets)
       \/ Aggregate(p)
       \/ Persist(p, ConcKvNets)
       \/ Respond(p)
  \/ Tick

SpecConc == Init /\ [][NextConc]_vars

(* ------------------------------------------------------------------ *)
(* Single calls of the helpers with every input of the bounded sets.    *)
(* ------------------------------------------------------------------ *)
ProbeBilibili ==
  /\ probe.fn = "none"
  /\ \E net \in BiliNets :
       probe' = [fn |-> "get_bilibili_followers", api_key |-> None, net |-> net,
                 out |-> get_bilibili_followers(BILIBILI_USER_ID, net)]
  /\ UNCHANGED <<shared, pc, locals, response, calls, reqs, failed, posted>>

ProbeYoutube ==
  /\ probe.fn = "none"
  /\ \E api_key \in ConfigValues, net \in YtNets :
       probe' = [fn |-> "get_youtube_subscribers", api_key |-> api_key, net |-> net,
                 out |-> get_youtube_subscribers(YOUTUBE_CHANNEL_ID, api_key, net)]
  /\ UNCHANGED <<shared, pc, locals, response, calls, reqs, failed, posted>>

\* A call of store_in_vercel_kv(KV_KEY_NAME, result_data) on its own, with its
\* effect on the store (lines 71-96).
ProbeStore ==
  /\ probe.fn = "none"
  /\ \E net \in KvNets :
       LET value == Snapshot(None, None, utcnow_stamp(now))
           out == store_in_vercel_kv(KV_KEY_NAME, value, env.KV_REST_API_URL,
                                     env.KV_REST_API_TOKEN, net)
           done == out.io > 0 /\ net.applied
       IN
       /\ probe' = [fn |-> "store_in_vercel_kv", api_key |-> None, net |-> net,
                    out |-> out]
       /\ kv' = IF done THEN KvSet(kv, StoreRequest(KV_KEY_NAME, value)) ELSE kv
       /\ applied' = IF done THEN applied \cup {now} ELSE applied
       /\ last_applied' = IF done THEN now ELSE last_applied
  /\ UNCHANGED <<env, now, pc, locals, response, calls, reqs, failed, posted>>

NextFn == ProbeBilibili \/ ProbeYoutube \/ ProbeStore

SpecFn == Init /\ [][NextFn]_vars

(* ------------------------------------------------------------------ *)
(* Vocabulary of the properties                                          *)
(* ------------------------------------------------------------------ *)
ConfigNames == {"YOUTUBE_API_KEY", "KV_REST_API_URL", "KV_REST_API_TOKEN"}
AbsentOrEmpty(x) == x = None \/ x = JStr(<<>>)
SomeConfigAbsent == \E n \in ConfigNames : AbsentOrEmpty(env[n])
Terminated(p) == pc[p] \in {"done", "raised"}
JsonType == "application/json"

\* The reply carried no JSON object at all.
NoObjectBody(net) ==
  \/ net.err # "none"
  \/ net.status # 200
  \/ ~net.parsable
  \/ net.json.k # "obj"

\* The first item of a Platform B reply, when there is one.
HasFirstItem(net) ==
  /\ ~NoObjectBody(net)
  /\ "items" \in DOMAIN net.json.v
  /\ net.json.v["items"].k = "list"
  /\ Len(net.json.v["items"].v) > 0
FirstItem(net) == net.json.v["items"].v[1]
HasStatistics(net) ==
  /\ HasFirstItem(net)
  /\ FirstItem(net).k = "obj"
  /\ "statistics" \in DOMAIN FirstItem(net).v
  /\ FirstItem(net).v["statistics"].k = "obj"
Statistics(net) == FirstItem(net).v["statistics"].v
MarkedHidden(net) ==
  /\ HasStatistics(net)
  /\ "hiddenSubscriberCount" \in DOMAIN Statistics(net)
  /\ Statistics(net)["hiddenSubscriberCount"] = True
NumericCount(net) ==
  /\ HasStatistics(net)
  /\ "subscriberCount" \in DOMAIN Statistics(net)
  /\ PyInt(Statistics(net)["subscriberCount"]).exc = "none"

YoutubeProbed == probe.fn = "get_youtube_subscribers" /\ Truthy(probe.api_key)
StoreProbed ==
  /\ probe.fn = "store_in_vercel_kv"
  /\ Truthy(env.KV_REST_API_URL) /\ Truthy(env.KV_REST_API_TOKEN)

StoredStamp == StampTime(kv["follower_counts"].v["last_updated_utc"])

(* ------------------------------------------------------------------ *)
(* Properties                                                           *)
(* ------------------------------------------------------------------ *)

\* C1: when one of the three configuration values is absent or empty, the
\* handler answers 500 with a JSON body holding "error", calls neither adapter
\* nor the persistence client, issues no network request and writes nothing
\* to the store.
C1_MissingConfigNoCalls ==
  SomeConfigAbsent =>
    /\ kv = EmptyDict
    /\ \A p \in Procs :
         /\ calls[p] = NoCalls /\ reqs[p] = NoCalls /\ posted[p] = <<>>
         /\ pc[p] \in {"idle", "check_config", "done"}
         /\ pc[p] = "done" =>
              /\ Len(response[p]) = 1
              /\ response[p][1].status = 500
              /\ response[p][1].content_type = JsonType
              /\ response[p][1].body.k = "obj"
              /\ "error" \in DOMAIN response[p][1].body.v

\* Scenario 3: only the store credential is absent and the handler has answered.
C1_Witness ==
  /\ env.KV_REST_API_TOKEN = None
  /\ Truthy(env.YOUTUBE_API_KEY) /\ Truthy(env.KV_REST_API_URL)
  /\ pc["p1"] = "done"
  /\ Len(response["p1"]) = 1

\* C2: with the configuration present, the handler answers 200 with status
\* "success" exactly when the persistence client returned True, and then
\* data_stored is the Snapshot sent to the store in this invocation (the
\* adapters' values, the two fixed identifiers, the captured timestamp); when
\* the persistence client returned False it answers 500 with status "error"
\* and the fixed message.
C2_ResponseFollowsPersistence ==
  \A p \in Procs :
    (~SomeConfigAbsent /\ Terminated(p)) =>
      /\ (\E i \in 1..Len(response[p]) : response[p][i].status = 200)
           <=> success[p] = True
      /\ success[p] = True =>
           /\ Len(posted[p]) = 1
           /\ posted[p][1].value =
                JObj([bilibili |-> JObj([user_id |-> BILIBILI_USER_ID,
                                         followers |-> bilibili_followers[p]]),
                      youtube |-> JObj([channel_id |-> YOUTUBE_CHANNEL_ID,
                                        subscribers |-> youtube_subscribers[p]]),
                      last_updated_utc |-> timestamp[p]])
           /\ response[p] =
                <<[status |-> 200, content_type |-> JsonType,
                   body |-> JObj([status |-> JStr(<<"success">>),
                                  data_stored |-> posted[p][1].value])]>>
      /\ success[p] = False =>
           response[p] =
             <<[status |-> 500, content_type |-> JsonType,
                body |-> JObj([status |-> JStr(<<"error">>),
                               message |-> JStr(<<"Failed to store data in Vercel KV">>)])]>>

\* Scenario 1: 500 followers, 1200 subscribers, the write succeeded, 200 sent.
C2_Witness ==
  /\ pc["p1"] = "done"
  /\ success["p1"] = True
  /\ bilibili_followers["p1"] = JInt(500)
  /\ youtube_subscribers["p1"] = JInt(1200)
  /\ Len(response["p1"]) = 1 /\ response["p1"][1].status = 200

\* C3: for every upstream outcome both adapters return a value, no exception
\* escapes them, and a reply without a JSON object yields null.
C3_AdaptersNeverRaise ==
  probe.fn \in {"get_bilibili_followers", "get_youtube_subscribers"} =>
    /\ probe.out.exc = "none"
    /\ NoObjectBody(probe.net) => probe.out.val = None

\* C4: the Platform B adapter returns "hidden" exactly when the first item's
\* statistics carry hiddenSubscriberCount = true; otherwise it returns a
\* non-negative integer or null.
C4_HiddenIffMarked ==
  YoutubeProbed =>
    /\ probe.out.val = HIDDEN <=> MarkedHidden(probe.net)
    /\ probe.out.val # HIDDEN =>
         \/ probe.out.val = None
         \/ probe.out.val.k = "int" /\ probe.out.val.v >= 0

\* C5: the Platform B adapter returns null when there is no first item, when
\* the first item has no statistics object, or when the statistics have no
\* subscriberCount or a non-numeric one (and the count is not marked hidden).
C5_NullWhenNotFoundOrMalformed ==
  (YoutubeProbed /\ ~MarkedHidden(probe.net) /\ ~NumericCount(probe.net)) =>
    probe.out.val = None

\* C6: with the configuration present, an adapter failure does not end the
\* invocation: both adapters are called, the Snapshot is built, the store write
\* is attempted, and when the write succeeds the answer is 200 with the failed
\* source's count null.
C6_NoShortCircuit ==
  \A p \in Procs :
    (~SomeConfigAbsent /\ Terminated(p) /\ failed[p] # {}) =>
      /\ calls[p] = [bilibili |-> 1, youtube |-> 1, kv |-> 1]
      /\ result_data[p] # None
      /\ success[p] = True =>
           /\ Len(response[p]) = 1 /\ response[p][1].status = 200
           /\ "bilibili" \in failed[p] => bilibili_followers[p] = None
           /\ "youtube" \in failed[p] => youtube_subscribers[p] = None

\* C7: the persistence client returns True exactly when the store answered
\* with a success status and a body whose result is "OK"; in every other case
\* it returns False, and it never raises.
C7_StoreTrueIffOk ==
  StoreProbed =>
    /\ probe.out.exc = "none"
    /\ probe.out.val = True <=>
         /\ ~NoObjectBody(probe.net)
         /\ "result" \in DOMAIN probe.net.json.v
         /\ probe.net.json.v["result"] = JStr(<<"O", "K">>)
    /\ probe.out.val \in {True, False}

\* C8 as stated: the Snapshot held at the fixed key has the greatest capture
\* timestamp among the Snapshots whose write the store has applied.
C8_StoredIsNewest ==
  "follower_counts" \in DOMAIN kv => \A t \in applied : StoredStamp >= t

\* C8 as amended: the Snapshot held at the fixed key is the one whose write the
\* store applied last.
C8_StoredIsLastApplied ==
  /\ "follower_counts" \in DOMAIN kv <=> last_applied # -1
  /\ "follower_counts" \in DOMAIN kv =>
       /\ StoredStamp = last_applied
       /\ last_applied \in applied

\* A later write carried an earlier capture: the store holds the last written
\* Snapshot, which is not the newest one.
C8_Witness ==
  /\ "follower_counts" \in DOMAIN kv
  /\ StoredStamp = last_applied
  /\ \E t \in applied : t > StoredStamp

\* C9: a successful store write goes to the key "follower_counts" and replaces
\* the whole value: afterwards the store holds exactly the written Snapshot
\* under that key and holds no other key.
C9_WriteReplacesWholeValue ==
  /\ [](DOMAIN kv \subseteq {"follower_counts"})
  /\ [][\A p \in Procs :
          (pc[p] = "persist" /\ pc'[p] = "respond" /\ success'[p] = True) =>
            /\ DOMAIN kv' = {"follower_counts"}
            /\ kv'["follower_counts"] = result_data[p]]_vars

\* S1 then S2: two writes were applied and the second one succeeded; the store
\* holds S2.
C9_Witness ==
  /\ applied = {0, 1}
  /\ pc["p1"] = "respond" /\ success["p1"] = True
  /\ timestamp["p1"] = utcnow_stamp(1)
  /\ kv["follower_counts"] = result_data["p1"]

\* C10: an invocation that has ended has written exactly one response, with
\* status 200 or 500 and Content-Type application/json.
C10_AlwaysOneResponse ==
  \A p \in Procs :
    Terminated(p) =>
      /\ Len(response[p]) = 1
      /\ response[p][1].status \in {200, 500}
      /\ response[p][1].content_type = JsonType

\* C11: in every Snapshot built or written to the store, the Platform A count
\* is an integer or null and the Platform B count is an integer, null or
\* "hidden"; no other value appears in either place.
C11_CountsWellTyped ==
  \A p \in Procs :
    result_data[p] # None =>
      /\ result_data[p].v["bilibili"].v["followers"].k \in {"int", "null"}
      /\ \/ result_data[p].v["youtube"].v["subscribers"].k \in {"int", "null"}
         \/ result_data[p].v["youtube"].v["subscribers"] = HIDDEN
      /\ \A i \in 1..Len(posted[p]) :
           /\ posted[p][i].value.v["bilibili"].v["followers"].k \in {"int", "null"}
           /\ \/ posted[p][i].value.v["youtube"].v["subscribers"].k \in {"int", "null"}
              \/ posted[p][i].value.v["youtube"].v["subscribers"] = HIDDEN

\* C12 as stated: when the persistence client reports failure (the handler then
\* answers 500 with status "error"), the store write of that invocation has
\* left the value at the fixed key unchanged.
C12_FailureLeavesStoreUnchanged ==
  [][\A p \in Procs :
       (pc[p] = "persist" /\ pc'[p] = "respond" /\ success'[p] = False) =>
         kv' = kv]_vars

\* C12 as amended: when the persistence client reports failure, the store write
\* of that invocation has either left the value at the fixed key unchanged or
\* replaced it by exactly this invocation's Snapshot (the store carried the
\* write out and its answer was lost or unreadable); no other value and no
\* other key results.
C12_FailureUnchangedOrWholeSnapshot ==
  [][\A p \in Procs :
       (pc[p] = "persist" /\ pc'[p] = "respond" /\ success'[p] = False) =>
         \/ kv' = kv
         \/ /\ DOMAIN kv' = {"follower_counts"}
            /\ kv'["follower_counts"] = result_data[p]
            /\ last_applied' = StampTime(timestamp[p])]_vars

\* The handler has answered 500 with status "error" and the store holds the
\* Snapshot of that very invocation: the write was applied, its answer lost.
C12_Witness ==
  /\ pc["p1"] = "done"
  /\ success["p1"] = False
  /\ Len(response["p1"]) = 1 /\ response["p1"][1].status = 500
  /\ applied = {StampTime(timestamp["p1"])}
  /\ kv = KvSet(EmptyDict, StoreRequest(KV_KEY_NAME, result_data["p1"]))

\* C13: within one invocation each platform endpoint is requested at most
\* once and the store write is attempted at most once (no retries); the store
\* write happens only after both adapter calls have returned and before the
\* response is written.
C13_NoRetriesWriteInBetween ==
  \A p \in Procs :
    /\ \A s \in {"bilibili", "youtube", "kv"} : calls[p][s] <= 1 /\ reqs[p][s] <= 1
    /\ Len(posted[p]) <= 1
    /\ (calls[p].kv = 1 \/ Len(posted[p]) = 1) =>
         /\ calls[p].bilibili = 1 /\ calls[p].youtube = 1
         /\ pc[p] \in {"respond", "done", "raised"}
    /\ pc[p] \in {"fetch_bilibili", "fetch_youtube", "aggregate", "persist", "respond"} =>
         response[p] = <<>>
    /\ (Len(response[p]) > 0 /\ ~SomeConfigAbsent) => calls[p].kv = 1

\* Platform A timed out and the store write failed as well; the invocation
\* has answered, with one request to each of the three services.
C13_Witness ==
  /\ pc["p1"] = "done"
  /\ "bilibili" \in failed["p1"]
  /\ success["p1"] = False
  /\ reqs["p1"] = [bilibili |-> 1, youtube |-> 1, kv |-> 1]
  /\ Len(response["p1"]) = 1

\* C14: within one invocation the timestamp is captured exactly once, after
\* both adapter calls have completed and before the store write begins, and
\* that one value is the timestamp of the Snapshot written to the store and of
\* the Snapshot returned in the response.
C14_OneTimestampCaptured ==
  /\ [](\A p \in Procs :
          /\ timestamp[p] # None =>
               /\ calls[p].bilibili = 1 /\ calls[p].youtube = 1
               /\ pc[p] \in {"persist", "respond", "done", "raised"}
               /\ result_data[p].v["last_updated_utc"] = timestamp[p]
          /\ pc[p] \in {"aggregate", "persist"} => calls[p].kv = 0 /\ posted[p] = <<>>
          /\ calls[p].kv = 1 => timestamp[p] # None
          /\ \A i \in 1..Len(posted[p]) :
               posted[p][i].value.v["last_updated_utc"] = timestamp[p]
          /\ \A i \in 1..Len(response[p]) :
               response[p][i].status = 200 =>
                 response[p][i].body.v["data_stored"].v["last_updated_utc"] = timestamp[p])
  /\ [][\A p \in Procs :
          timestamp'[p] # timestamp[p] =>
            \/ pc[p] = "aggregate" /\ timestamp[p] = None /\ timestamp'[p] # None
            \/ pc'[p] = "check_config" /\ timestamp'[p] = None]_vars

\* The clock moved on between the capture and the answer; the stored Snapshot
\* and the returned one both carry the captured instant, not the later one.
C14_Witness ==
  /\ pc["p1"] = "done"
  /\ success["p1"] = True
  /\ timestamp["p1"] = utcnow_stamp(0)
  /\ now > 0
  /\ kv["follower_counts"].v["last_updated_utc"] = utcnow_stamp(0)
  /\ response["p1"][1].body.v["data_stored"].v["last_updated_utc"] = utcnow_stamp(0)

\* The reply is a success answer whose JSON object has code 0, and the
\* follower field of its data object (null when there is none).
BodyCodeZero(net) ==
  /\ ~NoObjectBody(net)
  /\ "code" \in DOMAIN net.json.v
  /\ net.json.v["code"] = JInt(0)
BodyFollower(net) ==
  IF /\ "data" \in DOMAIN net.json.v
     /\ net.json.v["data"].k = "obj"
     /\ "follower" \in DOMAIN net.json.v["data"].v
  THEN net.json.v["data"].v["follower"]
  ELSE None

\* C15: get_bilibili_followers returns the body's data.follower exactly when
\* the request succeeded with a success status, the body parsed and its code
\* is 0; for a non-success status, a network failure or timeout, an unparsable
\* body or a code other than 0 it returns null.
C15_FollowerIffCodeZero ==
  probe.fn = "get_bilibili_followers" =>
    /\ probe.out.exc = "none"
    /\ BodyCodeZero(probe.net) => probe.out.val = BodyFollower(probe.net)
    /\ ~BodyCodeZero(probe.net) => probe.out.val = None

\* C16: called with the store URL or the bearer credential absent (or empty),
\* store_in_vercel_kv returns False, issues no network request and leaves the
\* store's value unchanged.
C16_NoStoreConfigNoRequest ==
  (/\ probe.fn = "store_in_vercel_kv"
   /\ AbsentOrEmpty(env.KV_REST_API_URL) \/ AbsentOrEmpty(env.KV_REST_API_TOKEN)) =>
    /\ probe.out = [exc |-> "none", val |-> False, io |-> 0]
    /\ kv = EmptyDict
    /\ applied = {}

\* The URL is set, the credential is not, and the store would have applied
\* the write and answered "OK" had it been asked.
C16_Witness ==
  /\ probe.fn = "store_in_vercel_kv"
  /\ Truthy(env.KV_REST_API_URL)
  /\ env.KV_REST_API_TOKEN = None
  /\ probe.net = NetResp(200, TRUE, MkDict([result |-> JStr(<<"O", "K">>)]), TRUE)
  /\ probe.out.val = False
  /\ kv = EmptyDict

\* C17: called with an absent or empty credential, get_youtube_subscribers
\* returns null at once: the API client is not built and no network request
\* is issued.
C17_NoKeyNoRequest ==
  (probe.fn = "get_youtube_subscribers" /\ AbsentOrEmpty(probe.api_key)) =>
    probe.out = [exc |-> "none", val |-> None, io |-> 0]

\* The credential is the empty string and Platform B would have answered
\* with a count.
C17_Witness ==
  /\ probe.fn = "get_youtube_subscribers"
  /\ probe.api_key = JStr(<<>>)
  /\ YtExpected(probe.net)
  /\ probe.out.val = None
  /\ probe.out.io = 0

\* C18 as stated: capture timestamps do not decrease from one invocation to a
\* later one.  One process serves its requests one after another, so every
\* Snapshot the store has applied was captured before the Snapshot the
\* process has just built and not yet written.
C18_TimestampsNonDecreasing ==
  \A p \in Workers :
    pc[p] = "persist" => \A t \in applied : t <= StampTime(timestamp[p])

\* C18 as amended: the timestamp an invocation captures is the reading of the
\* clock at that moment, read anew by every invocation and never an earlier
\* invocation's value.
C18_TimestampIsFreshReading ==
  [][\A p \in Procs :
       (pc[p] = "aggregate" /\ pc'[p] = "persist") =>
         /\ timestamp'[p] = utcnow_stamp(now)
         /\ StampTime(timestamp'[p]) = now]_vars

\* The clock was set back between two invocations: the later one has captured
\* instant 0 after the store applied the earlier one's Snapshot of instant 1.
C18_Witness ==
  /\ pc["p1"] = "persist"
  /\ applied = {1}
  /\ now = 0
  /\ timestamp["p1"] = utcnow_stamp(0)

====
